---- MODULE Spec2Model ----
(***************************************************************************)
(* The scene-expansion and QA-validation pipeline of the DirectorOS        *)
(* Actions API (src/app.py): expand_scene, qa_validate and the helpers     *)
(* _keyword_score, _coverage_score, _detect_conflicts, _severity and       *)
(* _render_engine_block.                                                   *)
(*                                                                         *)
(* Representation.  A Python str is a sequence of one-character strings    *)
(* (a character outside ASCII is written by its code point, "U+2264").     *)
(* A float is an exact rational: durations are integers counting 1/1000 s, *)
(* timestamps count 1/100 s, intensities count 1/10, scores are records    *)
(* [num, den].  Where Python rounds a float to decimals (round, the .1f    *)
(* format) and the exact value lies half-way between two results, the      *)
(* outcome depends on the binary representation, so either neighbour is    *)
(* allowed.  NaN, the infinities and binary64 overflow are outside the     *)
(* model, and minus zero is zero (Python writes it "-0.0").                *)
(* A JSON value is a record [tag, n, s, items]; a dict (st, ds, dw,        *)
(* drafts) is a function from a fixed key set to values, "absent" marking  *)
(* a key the dict does not hold.  Dict-valued fields are outside the       *)
(* model.  A function that can raise returns a record with a "raised"      *)
(* field.                                                                  *)
(***************************************************************************)
EXTENDS Integers, Sequences, FiniteSets, TLC

VARIABLES pc, request, scene, edits, engine, response, args, result

vars == <<pc, request, scene, edits, engine, response, args, result>>

(***************************************************************************)
(* Bounds of the model.                                                    *)
(***************************************************************************)
\* durations are DurationStep * k thousandths of a second, k in -1..MaxDurationSteps
MaxDurationSteps == 2
\* the caller changes at most this many fields of a hand-written scene
MaxEdits == 2
\* longest brief and draft handed to _keyword_score on its own
MaxBriefLen == 3
MaxDraftLen == 2
\* _severity on its own: scores are k / ScoreGrid, k in 0..ScoreGrid
ScoreGrid == 20

(***************************************************************************)
(* Python str                                                              *)
(***************************************************************************)
UpperSeq == <<"A","B","C","D","E","F","G","H","I","J","K","L","M","N","O","P","Q","R","S","T","U","V","W","X","Y","Z">>

LowerSeq == <<"a","b","c","d","e","f","g","h","i","j","k","l","m","n","o","p","q","r","s","t","u","v","w","x","y","z">>

UpperSet == {UpperSeq[i] : i \in 1..Len(UpperSeq)}

LowerSet == {LowerSeq[i] : i \in 1..Len(LowerSeq)}

ToLower == [c \in UpperSet |-> LowerSeq[CHOOSE i \in 1..Len(UpperSeq) : UpperSeq[i] = c]]

\* str.lower(), one character
LowerChar(c) == IF c \in UpperSet THEN ToLower[c] ELSE c

\* str.lower()
lower(s) == SubSeq([i \in 1..Len(s) |-> LowerChar(s[i])], 1, Len(s))

\* the regex class [a-zA-Z]
IsAlpha(c) == c \in (UpperSet \cup LowerSet)

\* sub in s, for two str (comparing the first character first only saves work)
Contains(s, sub) ==
    \/ sub = <<>>
    \/ \E i \in 0..(Len(s) - Len(sub)) : s[i + 1] = sub[1] /\ SubSeq(s, i + 1, i + Len(sub)) = sub

\* re.search(r"w1|w2|...", text, re.I) is not None, the words in lower case
SearchAnyI(words, text) == \E w \in words : Contains(lower(text), w)

\* re.findall(r"[a-zA-Z]+", s) from position i on: the matches left to right.
\* b is the first letter at or after i (Len(s) + 1 when there is none) and e the
\* last letter of the run that starts at b: the match is greedy
RECURSIVE FindAllAlpha(_, _)
FindAllAlpha(s, i) ==
    LET b == CHOOSE j \in i..(Len(s) + 1) :
                /\ j = Len(s) + 1 \/ IsAlpha(s[j])
                /\ \A h \in i..(j - 1) : ~IsAlpha(s[h])
    IN  IF b > Len(s) THEN <<>>
        ELSE LET e == CHOOSE j \in b..Len(s) :
                        /\ j = Len(s) \/ ~IsAlpha(s[j + 1])
                        /\ \A h \in b..j : IsAlpha(s[h])
             IN  <<SubSeq(s, b, e)>> \o FindAllAlpha(s, e + 1)

\* set(a list)
ToSet(l) == {l[i] : i \in 1..Len(l)}

\* sep.join(parts), the parts a sequence of str
RECURSIVE Join(_, _)
Join(sep, parts) ==
    IF parts = <<>> THEN <<>>
    ELSE IF Len(parts) = 1 THEN parts[1]
    ELSE parts[1] \o sep \o Join(sep, Tail(parts))

Digits == <<"0","1","2","3","4","5","6","7","8","9">>

\* str(n) for an int n >= 0
RECURSIVE NatText(_)
NatText(n) == IF n < 10 THEN <<Digits[n + 1]>> ELSE NatText(n \div 10) \o <<Digits[(n % 10) + 1]>>

\* str(n) for an int
IntText(n) == IF n < 0 THEN <<"-">> \o NatText(0 - n) ELSE NatText(n)

\* repr of a float with one decimal, given in tenths: 25 is "2.5", 20 is "2.0"
TenthsText(n) ==
    IF n < 0 THEN <<"-">> \o NatText((0 - n) \div 10) \o <<".">> \o NatText((0 - n) % 10)
    ELSE NatText(n \div 10) \o <<".">> \o NatText(n % 10)

(***************************************************************************)
(* Exact arithmetic for floats                                             *)
(***************************************************************************)
Rat(a, b) == [num |-> a, den |-> b]

\* x < y for two rationals with positive denominators
RatLt(x, y) == x.num * y.den < y.num * x.den

RatEq(x, y) == x.num * y.den = y.num * x.den

\* min(x, y)
RatMin(x, y) == IF RatLt(y, x) THEN y ELSE x

\* floor(p / q) for q > 0
FloorDiv(p, q) == IF p >= 0 THEN p \div q ELSE 0 - (((0 - p) + q - 1) \div q)

\* round(p / q) to an integer, q > 0: the nearest one; at an exact half either
\* neighbour, as the float's binary representation decides
RoundSet(p, q) ==
    LET f == FloorDiv(p, q)
        r == p - f * q
    IN  IF 2 * r < q THEN {f}
        ELSE IF 2 * r > q THEN {f + 1}
        ELSE {f, f + 1}

(***************************************************************************)
(* JSON values held in Dict[str, Any]                                      *)
(***************************************************************************)
Absent == [tag |-> "absent", n |-> 0, s |-> <<>>, items |-> <<>>]

VNull == [tag |-> "null", n |-> 0, s |-> <<>>, items |-> <<>>]

VBool(b) == [tag |-> "bool", n |-> IF b THEN 1 ELSE 0, s |-> <<>>, items |-> <<>>]

VInt(k) == [tag |-> "int", n |-> k, s |-> <<>>, items |-> <<>>]

\* a float, in tenths
VFloat(k) == [tag |-> "float", n |-> k, s |-> <<>>, items |-> <<>>]

VStr(t) == [tag |-> "str", n |-> 0, s |-> t, items |-> <<>>]

VList(l) == [tag |-> "list", n |-> 0, s |-> <<>>, items |-> l]

\* dict.get(key): None when the key is missing
Get(d, k) == IF d[k].tag = "absent" THEN VNull ELSE d[k]

\* dict.get(key, default)
GetOr(d, k, default) == IF d[k].tag = "absent" THEN default ELSE d[k]

\* what dict.setdefault(key, default) would leave in the dict
DictAfterSetDefault(d, k, default) == IF d[k].tag = "absent" THEN [d EXCEPT ![k] = default] ELSE d

\* what dict.get(key, default) leaves in the dict: get never inserts the default
DictAfterGet(d, k, default) == d

\* bool(v)
Truthy(v) ==
    CASE v.tag \in {"absent", "null"} -> FALSE
      [] v.tag \in {"bool", "int", "float"} -> v.n # 0
      [] v.tag = "str" -> v.s # <<>>
      [] v.tag = "list" -> v.items # <<>>

\* the value of a bool, int or float, in tenths
Tenths(v) == IF v.tag = "float" THEN v.n ELSE 10 * v.n

\* isinstance(v, (int, float)); bool is a subclass of int
IsIntOrFloat(v) == v.tag \in {"bool", "int", "float"}

\* v == w
PyEq(v, w) ==
    IF IsIntOrFloat(v) /\ IsIntOrFloat(w) THEN Tenths(v) = Tenths(w)
    ELSE v = w

\* v > a number given in tenths: TypeError unless v is a number
GreaterThan(v, tenths) ==
    IF IsIntOrFloat(v) THEN [raised |-> FALSE, val |-> Tenths(v) > tenths]
    ELSE [raised |-> TRUE, val |-> FALSE]

\* k in v for a str k: substring of a str, element of a list, TypeError otherwise
In(k, v) ==
    CASE v.tag = "str" -> [raised |-> FALSE, val |-> Contains(v.s, k)]
      [] v.tag = "list" -> [raised |-> FALSE, val |-> \E i \in 1..Len(v.items) : v.items[i] = VStr(k)]
      [] OTHER -> [raised |-> TRUE, val |-> FALSE]

\* json.dumps of a str, with its escapes of the quote and the backslash
RECURSIVE JsonEscape(_)
JsonEscape(s) ==
    IF s = <<>> THEN <<>>
    ELSE (IF Head(s) \in {"\"", "\\"} THEN <<"\\", Head(s)>> ELSE <<Head(s)>>) \o JsonEscape(Tail(s))

\* json.dumps of a value that is no container
JsonScalar(v) ==
    CASE v.tag = "null" -> <<"n","u","l","l">>
      [] v.tag = "bool" -> (IF v.n = 1 THEN <<"t","r","u","e">> ELSE <<"f","a","l","s","e">>)
      [] v.tag = "int" -> IntText(v.n)
      [] v.tag = "float" -> TenthsText(v.n)
      [] v.tag = "str" -> <<"\"">> \o JsonEscape(v.s) \o <<"\"">>

\* json.dumps of a value
JsonValue(v) ==
    IF v.tag = "list"
    THEN <<"[">> \o Join(<<","," ">>, [i \in 1..Len(v.items) |-> JsonScalar(v.items[i])]) \o <<"]">>
    ELSE JsonScalar(v)

\* the keys a dict holds, in the order of keyOrder
PresentKeys(d, keyOrder) == SelectSeq(keyOrder, LAMBDA k : d[k].tag # "absent")

\* json.dumps of a dict, its keys in the order of keyOrder
JsonDict(d, keyOrder, keyText) ==
    LET ks == PresentKeys(d, keyOrder)
    IN  <<"{">>
        \o Join(<<","," ">>, [i \in 1..Len(ks) |-> <<"\"">> \o keyText[ks[i]] \o <<"\"",":"," ">> \o JsonValue(d[ks[i]])])
        \o <<"}">>

\* str(v) of a value that is no container, as an f-string shows it
StrScalar(v) ==
    CASE v.tag = "null" -> <<"N","o","n","e">>
      [] v.tag = "bool" -> (IF v.n = 1 THEN <<"T","r","u","e">> ELSE <<"F","a","l","s","e">>)
      [] v.tag = "int" -> IntText(v.n)
      [] v.tag = "float" -> TenthsText(v.n)
      [] v.tag = "str" -> v.s

\* repr(v) of an element of a list (a str without quotes in it)
ReprScalar(v) == IF v.tag = "str" THEN <<"'">> \o v.s \o <<"'">> ELSE StrScalar(v)

\* f"{v}"
Str(v) ==
    IF v.tag = "list"
    THEN <<"[">> \o Join(<<","," ">>, [i \in 1..Len(v.items) |-> ReprScalar(v.items[i])]) \o <<"]">>
    ELSE StrScalar(v)

(***************************************************************************)
(* SceneDraft                                                              *)
(***************************************************************************)
StKeyOrder == <<"ar", "framing", "lens_mm", "dof", "base_lighting", "digital_crop_pct">>

DsKeyOrder == <<"primary_action", "camera_move", "focus_transition", "lighting_event", "penetration_mm">>

DwKeyOrder == <<"micro_vfx", "ambient">>

DraftKeys == {"sora", "veo"}

KeyText ==
    [k \in ToSet(StKeyOrder) \cup ToSet(DsKeyOrder) \cup ToSet(DwKeyOrder) |->
        CASE k = "ar" -> <<"a","r">>
          [] k = "framing" -> <<"f","r","a","m","i","n","g">>
          [] k = "lens_mm" -> <<"l","e","n","s","_","m","m">>
          [] k = "dof" -> <<"d","o","f">>
          [] k = "base_lighting" -> <<"b","a","s","e","_","l","i","g","h","t","i","n","g">>
          [] k = "digital_crop_pct" -> <<"d","i","g","i","t","a","l","_","c","r","o","p","_","p","c","t">>
          [] k = "primary_action" -> <<"p","r","i","m","a","r","y","_","a","c","t","i","o","n">>
          [] k = "camera_move" -> <<"c","a","m","e","r","a","_","m","o","v","e">>
          [] k = "focus_transition" -> <<"f","o","c","u","s","_","t","r","a","n","s","i","t","i","o","n">>
          [] k = "lighting_event" -> <<"l","i","g","h","t","i","n","g","_","e","v","e","n","t">>
          [] k = "penetration_mm" -> <<"p","e","n","e","t","r","a","t","i","o","n","_","m","m">>
          [] k = "micro_vfx" -> <<"m","i","c","r","o","_","v","f","x">>
          [] k = "ambient" -> <<"a","m","b","i","e","n","t">>]

EmptyDict(keyOrder) == [k \in ToSet(keyOrder) |-> Absent]

\* the dict holding the given keys: pairs is a sequence of <<key, value>>
DictOf(keyOrder, pairs) ==
    [k \in ToSet(keyOrder) |->
        IF \E i \in 1..Len(pairs) : pairs[i][1] = k
        THEN pairs[CHOOSE i \in 1..Len(pairs) : pairs[i][1] = k][2]
        ELSE Absent]

NoScene == [st |-> EmptyDict(StKeyOrder), ds |-> EmptyDict(DsKeyOrder), dw |-> EmptyDict(DwKeyOrder),
            timeline |-> <<>>, drafts |-> [k \in DraftKeys |-> Absent]]

(***************************************************************************)
(* QA: _keyword_score, _coverage_score, _detect_conflicts, _severity       *)
(***************************************************************************)
HARD_CONFLICTS ==
    [ar_lock_missing |-> <<"M","i","s","s","i","n","g"," ","A","R"," ","1","6",":","9"," ","l","o","c","k">>,
     multi_camera_moves |-> <<"M","u","l","t","i","p","l","e"," ","c","a","m","e","r","a"," ","m","o","v","e","s"," ","d","e","t","e","c","t","e","d">>,
     weather_vfx_double_strong |-> <<"W","e","a","t","h","e","r","U+2194","V","F","X"," ","d","o","u","b","l","e","-","s","t","r","o","n","g"," ","f","o","r","b","i","d","d","e","n">>,
     penetration_limit |-> <<"P","e","n","e","t","r","a","t","i","o","n"," ","e","x","c","e","e","d","s"," ","0",".","2"," ","c","m">>,
     focal_not_locked |-> <<"F","o","c","a","l"," ","l","e","n","g","t","h"," ","n","o","t"," ","l","o","c","k","e","d"," ","o","r"," ","i","n","v","a","l","i","d">>,
     digital_crop |-> <<"D","i","g","i","t","a","l","C","r","o","p","I","n","S","h","o","t"," ",">"," ","1","0","%">>]

\* a scorer that looks for the words in the draft as written
_keyword_score_AsIs(b, d) ==
    LET words == ToSet(FindAllAlpha(lower(b), 1))
        hits == Cardinality({w \in words : Contains(d, w)})
    IN  IF words = {} THEN Rat(7, 10)
        ELSE RatMin(Rat(1, 1), Rat(Cardinality(words) + hits, 2 * Cardinality(words)))

\* 0.5 + 0.5 * (hits / max(1, len(words))) is (len + hits) / (2 * len)
_keyword_score(b, d) ==
    LET words == ToSet(FindAllAlpha(lower(b), 1))
        hits == Cardinality({w \in words : Contains(lower(d), w)})
    IN  IF words = {} THEN Rat(7, 10)
        ELSE RatMin(Rat(1, 1), Rat(Cardinality(words) + hits, 2 * Cardinality(words)))

\* a coverage that asks of the ds and dw fields only that they are there
_coverage_score_Present(sc) ==
    LET have == (IF PyEq(Get(sc.st, "ar"), VStr(<<"1","6",":","9">>)) THEN 1 ELSE 0)
              + (IF Truthy(Get(sc.st, "lens_mm")) THEN 1 ELSE 0)
              + (IF sc.ds["primary_action"].tag # "absent" THEN 1 ELSE 0)
              + (IF sc.ds["camera_move"].tag # "absent" THEN 1 ELSE 0)
              + (IF sc.timeline # <<>> THEN 1 ELSE 0)
              + (IF sc.dw["micro_vfx"].tag # "absent" THEN 1 ELSE 0)
    IN  Rat(have, 6)

\* have / total; a field counts when its value is truthy
_coverage_score(sc) ==
    LET have == (IF PyEq(Get(sc.st, "ar"), VStr(<<"1","6",":","9">>)) THEN 1 ELSE 0)
              + (IF Truthy(Get(sc.st, "lens_mm")) THEN 1 ELSE 0)
              + (IF Truthy(Get(sc.ds, "primary_action")) THEN 1 ELSE 0)
              + (IF Truthy(Get(sc.ds, "camera_move")) THEN 1 ELSE 0)
              + (IF sc.timeline # <<>> THEN 1 ELSE 0)
              + (IF Truthy(Get(sc.dw, "micro_vfx")) THEN 1 ELSE 0)
        total == 6
    IN  Rat(have, total)

\* the conflicts in catalog order, or raised when a comparison or a membership
\* test is given a value of a type it does not take (TypeError)
_detect_conflicts(sc) ==
    LET cm == GetOr(sc.ds, "camera_move", VStr(<<>>))
        multi == [k \in {"&", ",", "+"} |-> In(<<k>>, cm)]
        pen == GetOr(sc.ds, "penetration_mm", VInt(0))
        penOver == GreaterThan(pen, 20)
        crop == Get(sc.st, "digital_crop_pct")
        cropOver == GreaterThan(crop, 100)
        raised == \/ \E k \in DOMAIN multi : multi[k].raised
                  \/ Truthy(pen) /\ penOver.raised
                  \/ Truthy(crop) /\ cropOver.raised
        conflicts ==
            (IF ~PyEq(Get(sc.st, "ar"), VStr(<<"1","6",":","9">>))
             THEN <<HARD_CONFLICTS.ar_lock_missing>> ELSE <<>>)
            \o (IF \E k \in DOMAIN multi : multi[k].val
                THEN <<HARD_CONFLICTS.multi_camera_moves>> ELSE <<>>)
            \o (IF /\ SearchAnyI({<<"r","a","i","n">>, <<"s","n","o","w">>, <<"s","t","o","r","m">>}, JsonDict(sc.dw, DwKeyOrder, KeyText))
                   /\ SearchAnyI({<<"f","l","a","s","h">>, <<"s","t","r","o","b","e">>, <<"i","n","t","e","n","s","e">>}, JsonDict(sc.ds, DsKeyOrder, KeyText))
                THEN <<HARD_CONFLICTS.weather_vfx_double_strong>> ELSE <<>>)
            \o (IF Truthy(pen) /\ penOver.val
                THEN <<HARD_CONFLICTS.penetration_limit>> ELSE <<>>)
            \o (IF ~IsIntOrFloat(Get(sc.st, "lens_mm"))
                THEN <<HARD_CONFLICTS.focal_not_locked>> ELSE <<>>)
            \o (IF Truthy(crop) /\ cropOver.val
                THEN <<HARD_CONFLICTS.digital_crop>> ELSE <<>>)
    IN  IF raised THEN [raised |-> TRUE, conflicts |-> <<>>]
        ELSE [raised |-> FALSE, conflicts |-> conflicts]

\* a classifier that forgets the conflicts
_severity_ScoresOnly(story_match, coverage, conflicts) ==
    IF RatLt(story_match, Rat(60, 100)) \/ RatLt(coverage, Rat(70, 100))
    THEN "fail"
    ELSE IF RatLt(story_match, Rat(8, 10)) \/ RatLt(coverage, Rat(85, 100))
         THEN "warn"
         ELSE "info"

\* a classifier that warns on the story match alone
_severity_NoCoverageWarn(story_match, coverage, conflicts) ==
    IF RatLt(story_match, Rat(60, 100)) \/ RatLt(coverage, Rat(70, 100)) \/ conflicts # <<>>
    THEN "fail"
    ELSE IF RatLt(story_match, Rat(8, 10))
         THEN "warn"
         ELSE "info"

\* the thresholds 0.60, 0.70, 0.8 and 0.85, compared exactly
_severity(story_match, coverage, conflicts) ==
    IF RatLt(story_match, Rat(60, 100)) \/ RatLt(coverage, Rat(70, 100)) \/ conflicts # <<>>
    THEN "fail"
    ELSE IF RatLt(story_match, Rat(8, 10)) \/ RatLt(coverage, Rat(85, 100))
         THEN "warn"
         ELSE "info"

(***************************************************************************)
(* The engine render block                                                 *)
(***************************************************************************)
\* f"{t:.1f}" of a timestamp in hundredths of a second
Fmt1Set(t) ==
    {(IF t < 0 THEN <<"-">> ELSE <<>>) \o TenthsText(IF r < 0 THEN 0 - r ELSE r) : r \in RoundSet(t, 10)}

\* the possible values of [f"{b.t:.1f}s {b.beat}" for b in timeline]
RECURSIVE BeatTexts(_)
BeatTexts(tl) ==
    IF tl = <<>> THEN {<<>>}
    ELSE {<<f \o <<"s"," ">> \o tl[1].beat>> \o rest : f \in Fmt1Set(tl[1].t), rest \in BeatTexts(Tail(tl))}

\* ", ".join(v): the elements of a list of str, the characters of a str,
\* TypeError otherwise
JoinValue(v) ==
    CASE v.tag = "list" ->
            IF \A i \in 1..Len(v.items) : v.items[i].tag = "str"
            THEN [raised |-> FALSE, text |-> Join(<<","," ">>, [i \in 1..Len(v.items) |-> v.items[i].s])]
            ELSE [raised |-> TRUE, text |-> <<>>]
      [] v.tag = "str" -> [raised |-> FALSE, text |-> Join(<<","," ">>, [i \in 1..Len(v.s) |-> <<v.s[i]>>])]
      [] OTHER -> [raised |-> TRUE, text |-> <<>>]

\* the possible results of _render_engine_block: one per way the timestamps format
_render_engine_block(eng, sc) ==
    LET header == <<"[","B","E","G","I","N"," ","E","n","g","i","n","e","R","e","n","d","e","r"," ">> \o eng \o <<"]">>
        footer == <<"[","E","N","D"," ","E","n","g","i","n","e","R","e","n","d","e","r"," ">> \o eng \o <<"]">>
        lighting == JoinValue(GetOr(sc.st, "base_lighting", VList(<<>>)))
        body(beats) ==
            <<"f","r","a","m","i","n","g",":"," ">> \o Str(Get(sc.st, "framing")) \o <<";"," ","l","e","n","s",":"," ">> \o Str(Get(sc.st, "lens_mm"))
            \o <<"m","m",";"," ","D","O","F",":"," ">> \o Str(Get(sc.st, "dof")) \o <<";"," ","A","R",":"," ">> \o Str(Get(sc.st, "ar")) \o <<"\n">>
            \o <<"s","u","b","j","e","c","t",":"," ","t","w","o"," ","f","r","i","e","n","d","s"," ","(","2","0","s",")",","," ","k","e","y"," ","p","r","o","p",":"," ","h","o","t"," ","p","a","c","k",";"," ","b","a","c","k","g","r","o","u","n","d",":"," ","w","i","n","t","e","r"," ","s","t","r","e","e","t"," ","e","v","e","n","i","n","g">> \o <<"\n">>
            \o <<"a","c","t","i","o","n",":"," ">> \o Str(Get(sc.ds, "primary_action")) \o <<" ","(","o","n","e"," ","b","e","a","t",")",";"," ","c","a","m","e","r","a","_","m","o","v","e",":"," ">>
            \o Str(Get(sc.ds, "camera_move")) \o <<"\n">>
            \o <<"t","i","m","e","l","i","n","e",":"," ">> \o Join(<<","," ">>, beats) \o <<"\n">>
            \o <<"l","i","g","h","t","i","n","g",":"," ">> \o lighting.text \o <<"."," ","p","a","l","e","t","t","e",":"," ","m","u","t","e","d"," ","w","a","r","m"," ","n","e","u","t","r","a","l","s",".">> \o <<"\n">>
            \o <<"s","a","f","e","t","y",":"," ","n","o"," ","c","l","o","n","e","s",";"," ","n","o"," ","w","a","t","e","r","m","a","r","k",";"," ","p","e","n","e","t","r","a","t","i","o","n"," ","U+2264"," ","0",".","2"," ","c","m",";"," ","s","i","n","g","l","e"," ","c","a","m","e","r","a"," ","m","o","v","e",";"," ","f","o","c","a","l"," ","l","o","c","k","e","d",".">>
            \o <<"\n">>
    IN  IF lighting.raised THEN {[raised |-> TRUE, text |-> <<>>]}
        ELSE {[raised |-> FALSE, text |-> Join(<<"\n">>, <<header, body(beats), footer>>)] :
                beats \in BeatTexts(sc.timeline)}

(***************************************************************************)
(* expand_scene                                                            *)
(***************************************************************************)
DurationStep == 1300

Durations == {DurationStep * k : k \in (0 - 1)..MaxDurationSteps}

\* Concept.anchors: Dict[str, List[str]]
AnchorKeys == {"lighting", "palette"}

NoAnchors == [k \in AnchorKeys |-> Absent]

StrList(l) == VList([i \in 1..Len(l) |-> VStr(l[i])])

Concepts ==
    {[anchors |-> [lighting |-> Absent,
                   palette |-> StrList(<<<<"m","u","t","e","d"," ","t","e","a","l">>, <<"b","u","r","n","t"," ","o","r","a","n","g","e">>>>)]],
     [anchors |-> [lighting |-> StrList(<<<<"s","t","o","r","m"," ","f","l","a","s","h">>, <<"n","e","o","n"," ","&"," ","r","a","i","n">>>>),
                   palette |-> Absent]]}

\* ExpandSceneRequest: beats has ge=1, le=12; duration_sec is any float
MinBeats == 1

MaxBeats == 12

ExpandSceneRequests ==
    [selection : Concepts, duration_sec : Durations, beats : MinBeats..MaxBeats]

NoRequest == [selection |-> [anchors |-> NoAnchors], duration_sec |-> 0, beats |-> 0]

base_beats ==
    <<<<"h","o","l","d"," ","e","y","e"," ","c","o","n","t","a","c","t">>,
      <<"h","a","n","d","s"," ","r","i","s","e">>,
      <<"h","a","n","d","o","f","f"," ","c","o","n","t","a","c","t">>,
      <<"s","e","t","t","l","e"," ","(","g","r","i","p"," ","~","0",".","2","s",")">>,
      <<"m","i","c","r","o"," ","s","m","i","l","e"," ","+"," ","e","x","h","a","l","e">>>>

intensity_seq == <<3, 5, 9, 6, 4>>

\* base_beats[:n] if n <= len(base_beats) else base_beats + ["beat 6", ..., f"beat {n}"]
beats_txt(beats_n) ==
    IF beats_n <= Len(base_beats) THEN SubSeq(base_beats, 1, beats_n)
    ELSE base_beats \o [j \in 1..(beats_n - Len(base_beats)) |-> <<"b","e","a","t"," ">> \o IntText(Len(base_beats) + j)]

\* a spacing that divides by the number of beats
BeatTime_OverN(duration, i, beats_n) == IF beats_n = 1 THEN Rat(0, 1) ELSE Rat(duration * i, beats_n)

\* the timestamp of beat i (0-indexed), in thousandths: a numerator and a denominator
BeatTime(duration, i, beats_n) == IF beats_n = 1 THEN Rat(0, 1) ELSE Rat(duration * i, beats_n - 1)

\* intensity_seq[i] if i < len(intensity_seq) else 0.5, in tenths
BeatIntensity(i) == IF i < Len(intensity_seq) THEN intensity_seq[i + 1] ELSE 5

\* the possible timelines: the first k beats, each timestamp round(t, 2) in hundredths
RECURSIVE Timelines(_, _, _)
Timelines(duration, beats_n, k) ==
    IF k = 0 THEN {<<>>}
    ELSE LET t == BeatTime(duration, k - 1, beats_n)
         IN  {Append(tl, [t |-> r, beat |-> beats_txt(beats_n)[k], intensity |-> BeatIntensity(k - 1)]) :
                tl \in Timelines(duration, beats_n, k - 1),
                r \in RoundSet(t.num, 10 * t.den)}

\* s.replace(old, new): every occurrence, left to right, none overlapping
RECURSIVE Replace(_, _, _)
Replace(s, old, new) ==
    LET found == {i \in 1..(Len(s) - Len(old) + 1) : SubSeq(s, i, i + Len(old) - 1) = old}
    IN  IF found = {} THEN s
        ELSE LET i == CHOOSE h \in found : \A g \in found : h <= g
             IN  SubSeq(s, 1, i - 1) \o new \o Replace(SubSeq(s, i + Len(old), Len(s)), old, new)

\* sel.anchors.get(key, default)
AnchorOr(sel, k, default) == IF sel.anchors[k].tag = "absent" THEN default ELSE sel.anchors[k]

ComposedSt(sel) ==
    DictOf(StKeyOrder,
           <<<<"ar", VStr(<<"1","6",":","9">>)>>,
             <<"framing", VStr(<<"m","e","d","i","u","m"," ","s","h","o","t",","," ","e","y","e","-","l","e","v","e","l">>)>>,
             <<"lens_mm", VInt(85)>>,
             <<"dof", VStr(<<"s","h","a","l","l","o","w">>)>>,
             <<"base_lighting", AnchorOr(sel, "lighting", StrList(<<<<"s","o","f","t"," ","k","e","y">>, <<"g","e","n","t","l","e"," ","f","i","l","l">>, <<"r","i","m">>>>))>> >>)

\* a dynamic-strong layer with a second camera move
ComposedDs_TwoMoves ==
    DictOf(DsKeyOrder,
           <<<<"primary_action", VStr(<<"h","o","t"," ","p","a","c","k"," ","h","a","n","d","o","f","f"," ","(","o","n","e"," ","c","l","e","a","n"," ","b","e","a","t",")">>)>>,
             <<"camera_move", VStr(<<"s","l","o","w"," ","p","u","s","h","-","i","n",","," ","t","i","l","t"," ","u","p">>)>>,
             <<"focus_transition", VStr(<<"r","a","c","k"," ","t","o"," ","h","a","n","d","s"," ","t","h","e","n"," ","b","a","c","k"," ","t","o"," ","e","y","e","s">>)>>,
             <<"lighting_event", VStr(<<"s","u","b","t","l","e"," ","w","a","r","m"," ","s","h","i","f","t"," ","a","t"," ","c","o","n","t","a","c","t"," ","(","D","S","7",")">>)>> >>)

\* ds: one primary action and one camera move
ComposedDs ==
    DictOf(DsKeyOrder,
           <<<<"primary_action", VStr(<<"h","o","t"," ","p","a","c","k"," ","h","a","n","d","o","f","f"," ","(","o","n","e"," ","c","l","e","a","n"," ","b","e","a","t",")">>)>>,
             <<"camera_move", VStr(<<"s","l","o","w"," ","p","u","s","h","-","i","n">>)>>,
             <<"focus_transition", VStr(<<"r","a","c","k"," ","t","o"," ","h","a","n","d","s"," ","t","h","e","n"," ","b","a","c","k"," ","t","o"," ","e","y","e","s">>)>>,
             <<"lighting_event", VStr(<<"s","u","b","t","l","e"," ","w","a","r","m"," ","s","h","i","f","t"," ","a","t"," ","c","o","n","t","a","c","t"," ","(","D","S","7",")">>)>> >>)

ComposedDw ==
    DictOf(DwKeyOrder,
           <<<<"micro_vfx", VStr(<<"s","o","f","t"," ","b","r","e","a","t","h"," ","i","n"," ","c","o","l","d"," ","a","i","r">>)>>,
             <<"ambient", VStr(<<"l","i","g","h","t"," ","c","r","o","w","d"," ","b","o","k","e","h"," ","w","o","b","b","l","e">>)>> >>)

SoraDraft(sel, timeline_str) ==
    <<"m","e","d","i","u","m"," ","s","h","o","t",","," ","e","y","e","-","l","e","v","e","l",","," ","8","5","m","m",","," ","s","h","a","l","l","o","w"," ","D","O","F",";"," ","o","n","e"," ","c","a","m","e","r","a"," ","m","o","v","e",":"," ","s","l","o","w"," ","p","u","s","h","-","i","n",";"," ","s","u","b","j","e","c","t",":"," ","t","w","o"," ","2","0","s"," ","f","r","i","e","n","d","s",";"," ">>
    \o <<"b","a","c","k","g","r","o","u","n","d",":"," ","w","i","n","t","e","r"," ","s","t","r","e","e","t"," ","e","v","e","n","i","n","g",";"," ","a","c","t","i","o","n",":"," ","h","o","t"," ","p","a","c","k"," ","h","a","n","d","o","f","f"," ","i","n"," ","a"," ","s","i","n","g","l","e"," ","b","e","a","t",";"," ">>
    \o <<"p","a","l","e","t","t","e",":"," ">> \o JoinValue(AnchorOr(sel, "palette", VList(<<>>))).text \o <<";"," ">>
    \o <<"t","i","m","e","l","i","n","e",":"," ">> \o timeline_str \o <<";"," ">>
    \o <<"p","o","s","i","t","i","v","e","s"," ","o","n","l","y",";"," ","n","o"," ","c","l","o","n","e","s",";"," ","n","o"," ","w","a","t","e","r","m","a","r","k",";">>

\* the possible results of expand_scene: one per way the timestamps round and format
expand_scene(payload) ==
    LET sel == payload.selection
        duration == payload.duration_sec
        beats_n == payload.beats
    IN  {[st |-> ComposedSt(sel),
          ds |-> ComposedDs,
          dw |-> ComposedDw,
          timeline |-> timeline,
          drafts |-> [sora |-> VStr(SoraDraft(sel, Join(<<","," ">>, texts))),
                      veo |-> VStr(Replace(SoraDraft(sel, Join(<<","," ">>, texts)),
                                           <<"w","i","n","t","e","r"," ","s","t","r","e","e","t"," ","e","v","e","n","i","n","g">>, <<"c","i","t","y"," ","p","l","a","z","a"," ","d","u","s","k">>))]] :
            <<timeline, texts>> \in
                UNION {{<<tl, tx>> : tx \in BeatTexts(tl)} : tl \in Timelines(duration, beats_n, beats_n)}}

(***************************************************************************)
(* qa_validate                                                             *)
(***************************************************************************)
Engines == {"SORA", "VEO"}

EngineText == [e \in Engines |-> IF e = "SORA" THEN <<"S","O","R","A">> ELSE <<"V","E","O">>]

NoReport == [story_match_score |-> 0, coverage_score |-> 0, conflicts |-> <<>>, severity |-> "none"]

NoResponse == [status |-> "none", engine_render |-> <<>>, report |-> NoReport]

\* an exception leaves the handler: no QAValidateResponse, the server answers 500
ServerError == [status |-> "error", engine_render |-> <<>>, report |-> NoReport]

\* json.dumps({"st": scene.st, "ds": scene.ds})
BriefOf(sc) ==
    <<"{","\"","s","t","\"",":"," ">> \o JsonDict(sc.st, StKeyOrder, KeyText)
    \o <<","," ","\"","d","s","\"",":"," ">> \o JsonDict(sc.ds, DsKeyOrder, KeyText) \o <<"}">>

\* scene.drafts.get("sora" if engine == "SORA" else "veo", "")
DraftOf(sc, eng) == GetOr(sc.drafts, IF eng = "SORA" THEN "sora" ELSE "veo", VStr(<<>>)).s

\* the possible outcomes of qa_validate: one per way the timestamps format and
\* the scores round to 3 decimals (report scores in thousandths)
qa_validate(sc, eng) ==
    LET story_match == _keyword_score(BriefOf(sc), DraftOf(sc, eng))
        coverage == _coverage_score(sc)
        detected == _detect_conflicts(sc)
        sev == _severity(story_match, coverage, detected.conflicts)
    IN  IF detected.raised THEN {ServerError}
        ELSE {IF rendered.raised THEN ServerError
              ELSE [status |-> "ok",
                    engine_render |-> rendered.text,
                    report |-> [story_match_score |-> sm3,
                                coverage_score |-> cov3,
                                conflicts |-> detected.conflicts,
                                severity |-> sev]] :
                rendered \in _render_engine_block(EngineText[eng], sc),
                sm3 \in RoundSet(1000 * story_match.num, story_match.den),
                cov3 \in RoundSet(1000 * coverage.num, coverage.den)}

\* the scene after the handler's reads of it
SceneAfterQa(sc) ==
    [sc EXCEPT !.ds = DictAfterGet(DictAfterGet(sc.ds, "camera_move", VStr(<<>>)), "penetration_mm", VInt(0)),
               !.st = DictAfterGet(sc.st, "base_lighting", VList(<<>>))]

(***************************************************************************)
(* The scenes a caller writes                                              *)
(***************************************************************************)
FullDraft == <<"S","T"," ","d","s",":"," ","A","R",","," ","l","e","n","s"," ","m","m",";"," ","p","r","i","m","a","r","y"," ","a","c","t","i","o","n"," ","w","a","l","k",";"," ","c","a","m","e","r","a"," ","m","o","v","e"," ","p","a","n">>

PartDraft == <<"c","a","m","e","r","a"," ","m","o","v","e"," ","p","a","n",";"," ","W","a","l","k">>

OneBeat == <<[t |-> 0, beat |-> <<"h","o","l","d">>, intensity |-> 5]>>

CleanScene ==
    [st |-> DictOf(StKeyOrder, <<<<"ar", VStr(<<"1","6",":","9">>)>>, <<"lens_mm", VInt(50)>> >>),
     ds |-> DictOf(DsKeyOrder, <<<<"primary_action", VStr(<<"w","a","l","k">>)>>, <<"camera_move", VStr(<<"p","a","n">>)>> >>),
     dw |-> DictOf(DwKeyOrder, <<<<"micro_vfx", VStr(<<"m","i","s","t">>)>> >>),
     timeline |-> OneBeat,
     drafts |-> [sora |-> VStr(FullDraft), veo |-> VStr(PartDraft)]]

BaseScenes == {CleanScene, NoScene}

StEdits ==
    [ar |-> {Absent, VStr(<<"1","6",":","9">>), VStr(<<"4",":","3">>)},
     lens_mm |-> {Absent, VInt(85), VInt(0), VStr(<<"8","5">>), VBool(TRUE)},
     base_lighting |-> {Absent, StrList(<<<<"s","o","f","t"," ","k","e","y">>, <<"r","i","m">>>>), VNull, VList(<<VInt(1)>>)},
     digital_crop_pct |-> {Absent, VInt(10), VInt(11), VStr(<<"1","1">>)}]

DsEdits ==
    [primary_action |-> {Absent, VStr(<<>>), VStr(<<"w","a","l","k">>)},
     camera_move |-> {Absent, VStr(<<"p","a","n">>), VStr(<<"p","a","n",","," ","t","i","l","t">>), VStr(<<"p","a","n","+","t","i","l","t">>), VStr(<<"p","a","n"," ","&"," ","t","i","l","t">>),
                      VInt(5), VNull, VList(<<VStr(<<",">>)>>)},
     lighting_event |-> {Absent, VStr(<<"F","l","a","s","h">>)},
     penetration_mm |-> {Absent, VFloat(20), VFloat(25), VInt(3), VStr(<<"3">>)}]

DwEdits ==
    [micro_vfx |-> {Absent, VStr(<<>>), VStr(<<"m","i","s","t">>), VStr(<<"s","n","o","w">>)}]

DraftEdits == {Absent, VStr(FullDraft), VStr(PartDraft)}

TimelineEdits == {<<>>, OneBeat}

(***************************************************************************)
(* The service: a scene is composed or written by the caller, the caller   *)
(* may change a scene of its own, and the scene is validated.              *)
(***************************************************************************)
NoArgs == [story_match |-> Rat(0, 1), coverage |-> Rat(0, 1), conflicts |-> <<>>,
           brief |-> <<>>, draft |-> <<>>]

Init ==
    /\ pc = "idle"
    /\ request = NoRequest
    /\ scene = NoScene
    /\ edits = 0
    /\ engine = "SORA"
    /\ response = NoResponse
    /\ args = NoArgs
    /\ result = "none"

\* POST /expand-scene
ExpandScene ==
    /\ pc = "idle"
    /\ \E payload \in ExpandSceneRequests :
         /\ request' = payload
         /\ scene' \in expand_scene(payload)
    /\ pc' = "composed"
    /\ UNCHANGED <<edits, engine, response, args, result>>

\* the caller writes a SceneDraft of its own
SubmitScene ==
    /\ pc = "idle"
    /\ scene' \in BaseScenes
    /\ pc' = "supplied"
    /\ UNCHANGED <<request, edits, engine, response, args, result>>

\* the caller changes one field of its scene
EditScene ==
    /\ pc = "supplied"
    /\ edits < MaxEdits
    /\ \/ \E k \in DOMAIN StEdits : \E v \in StEdits[k] : scene' = [scene EXCEPT !.st[k] = v]
       \/ \E k \in DOMAIN DsEdits : \E v \in DsEdits[k] : scene' = [scene EXCEPT !.ds[k] = v]
       \/ \E k \in DOMAIN DwEdits : \E v \in DwEdits[k] : scene' = [scene EXCEPT !.dw[k] = v]
       \/ \E tl \in TimelineEdits : scene' = [scene EXCEPT !.timeline = tl]
       \/ \E k \in DraftKeys : \E v \in DraftEdits : scene' = [scene EXCEPT !.drafts[k] = v]
    /\ scene' # scene
    /\ edits' = edits + 1
    /\ UNCHANGED <<pc, request, engine, response, args, result>>

\* POST /qa-validate
QaValidate ==
    /\ pc \in {"composed", "supplied"}
    /\ \E eng \in Engines :
         /\ engine' = eng
         /\ response' \in qa_validate(scene, eng)
    /\ scene' = SceneAfterQa(scene)
    /\ pc' = "validated"
    /\ UNCHANGED <<request, edits, args, result>>

Next == ExpandScene \/ SubmitScene \/ EditScene \/ QaValidate

Spec == Init /\ [][Next]_vars

(***************************************************************************)
(* _severity on its own                                                    *)
(***************************************************************************)
SeverityScores == {Rat(k, ScoreGrid) : k \in 0..ScoreGrid} \cup {Rat(k, 6) : k \in 0..6}

SeverityConflicts ==
    {<<>>, <<HARD_CONFLICTS.ar_lock_missing>>,
     <<HARD_CONFLICTS.multi_camera_moves, HARD_CONFLICTS.digital_crop>>}

InitSeverity ==
    /\ pc = "classify"
    /\ request = NoRequest
    /\ scene = NoScene
    /\ edits = 0
    /\ engine = "SORA"
    /\ response = NoResponse
    /\ \E sm \in SeverityScores, cov \in SeverityScores, cs \in SeverityConflicts :
         args = [NoArgs EXCEPT !.story_match = sm, !.coverage = cov, !.conflicts = cs]
    /\ result = "none"

Classify ==
    /\ pc = "classify"
    /\ result' = _severity(args.story_match, args.coverage, args.conflicts)
    /\ pc' = "classified"
    /\ UNCHANGED <<request, scene, edits, engine, response, args>>

SpecSeverity == InitSeverity /\ [][Classify]_vars

(***************************************************************************)
(* _keyword_score on its own                                               *)
(***************************************************************************)
Alphabet == {"a", "b", "A", "1"}

Strings(n) == UNION {[1..k -> Alphabet] : k \in 0..n}

InitScorer ==
    /\ pc = "score"
    /\ request = NoRequest
    /\ scene = NoScene
    /\ edits = 0
    /\ engine = "SORA"
    /\ response = NoResponse
    /\ \E b \in Strings(MaxBriefLen), d \in Strings(MaxDraftLen) :
         args = [NoArgs EXCEPT !.brief = b, !.draft = d]
    /\ result = "none"

Score ==
    /\ pc = "score"
    /\ result' = _keyword_score(args.brief, args.draft)
    /\ pc' = "scored"
    /\ UNCHANGED <<request, scene, edits, engine, response, args>>

SpecScorer == InitScorer /\ [][Score]_vars

(***************************************************************************)
(* Properties                                                              *)
(***************************************************************************)
HasScene == pc \in {"composed", "supplied", "validated"}

\* the scene came from expand_scene and was not changed since
Composed == request # NoRequest

Validated == pc = "validated" /\ response.status = "ok"

\* x < h / 100
Below(x, h) == 100 * x.num < h * x.den

Abs(x) == IF x < 0 THEN 0 - x ELSE x

\* C1: the Severity Classifier returns "fail" if story-match < 0.60 or coverage
\* < 0.70 or the conflict list is non-empty, otherwise "warn" if story-match <
\* 0.80 or coverage < 0.85, otherwise "info"; a non-empty conflict list gives
\* "fail" whatever the scores.
C1_SeverityTable ==
    pc = "classified" =>
        LET sm == args.story_match
            cov == args.coverage
            failing == Below(sm, 60) \/ Below(cov, 70) \/ Len(args.conflicts) > 0
            warning == Below(sm, 80) \/ Below(cov, 85)
        IN  /\ failing => result = "fail"
            /\ ~failing /\ warning => result = "warn"
            /\ ~failing /\ ~warning => result = "info"
            /\ Len(args.conflicts) > 0 => result = "fail"

C1_Witness ==
    /\ pc = "classified"
    /\ RatEq(args.story_match, Rat(1, 1))
    /\ RatEq(args.coverage, Rat(1, 1))
    /\ args.conflicts # <<>>
    /\ result = "fail"

\* C2: for a beat count n in 1..12 and a duration >= 0, the composed timeline
\* has exactly n beats, non-decreasing timestamps, first timestamp 0.0 and,
\* when n > 1, a last timestamp equal to the duration within the rounding to
\* 2 decimals; beat i (0-indexed) lies at duration * i / (n - 1), rounded to
\* 2 decimals.
C2_Timeline ==
    (Composed /\ request.duration_sec >= 0) =>
        LET n == request.beats
            d == request.duration_sec
            tl == scene.timeline
        IN  /\ Len(tl) = n
            /\ \A i \in 1..(n - 1) : tl[i].t <= tl[i + 1].t
            /\ tl[1].t = 0
            /\ n > 1 => Abs(10 * tl[n].t - d) <= 5
            /\ n > 1 => \A i \in 0..(n - 1) : Abs(10 * tl[i + 1].t * (n - 1) - d * i) <= 5 * (n - 1)

\* a timeline of several beats whose timestamps had to be rounded
C2_Witness ==
    /\ pc = "composed"
    /\ request.duration_sec > 0
    /\ request.beats > 5
    /\ \E i \in 1..request.beats : 10 * scene.timeline[i].t * (request.beats - 1) # request.duration_sec * (i - 1)

\* C3: qa_validate never throws for a scene that passes structural validation:
\* whatever the values held by st, ds and dw, it returns a QAReport and a
\* rendered block.
C3_QaNeverThrows ==
    pc = "validated" =>
        /\ response.status = "ok"
        /\ response.engine_render # <<>>
        /\ response.report.severity \in {"info", "warn", "fail"}

\* the str values and the names of the keys a layer holds
TextsOf(d) ==
    {KeyText[k] : k \in {j \in DOMAIN d : d[j].tag # "absent"}}
    \cup {d[k].s : k \in {j \in DOMAIN d : d[j].tag = "str"}}
    \cup UNION {{d[k].items[i].s : i \in {j \in 1..Len(d[k].items) : d[k].items[j].tag = "str"}} :
                    k \in {j \in DOMAIN d : d[j].tag = "list"}}

\* a layer matches one of the words, in any case
LayerMatches(d, words) ==
    \E t \in TextsOf(d) : \E w \in words : \E i \in 0..(Len(t) - Len(w)) :
        \A j \in 1..Len(w) : LowerChar(t[i + j]) = w[j]

\* a value is present, truthy and a number above the limit (in tenths)
NumberAbove(v, limit) ==
    /\ v.tag \in {"bool", "int", "float"}
    /\ Tenths(v) # 0
    /\ Tenths(v) > limit

\* the rule catalog, in its order: the message of each rule and whether it holds
RuleCatalog(sc) ==
    <<[msg |-> HARD_CONFLICTS.ar_lock_missing,
       holds |-> sc.st["ar"] # VStr(<<"1","6",":","9">>)],
      [msg |-> HARD_CONFLICTS.multi_camera_moves,
       holds |-> LET cm == sc.ds["camera_move"]
                 IN  \/ cm.tag = "str" /\ \E i \in 1..Len(cm.s) : cm.s[i] \in {"&", ",", "+"}
                     \/ cm.tag = "list" /\ \E i \in 1..Len(cm.items) :
                            cm.items[i] \in {VStr(<<"&">>), VStr(<<",">>), VStr(<<"+">>)}],
      [msg |-> HARD_CONFLICTS.weather_vfx_double_strong,
       holds |-> /\ LayerMatches(sc.dw, {<<"r","a","i","n">>, <<"s","n","o","w">>, <<"s","t","o","r","m">>})
                 /\ LayerMatches(sc.ds, {<<"f","l","a","s","h">>, <<"s","t","r","o","b","e">>, <<"i","n","t","e","n","s","e">>})],
      [msg |-> HARD_CONFLICTS.penetration_limit,
       holds |-> NumberAbove(sc.ds["penetration_mm"], 20)],
      [msg |-> HARD_CONFLICTS.focal_not_locked,
       holds |-> sc.st["lens_mm"].tag \notin {"bool", "int", "float"}],
      [msg |-> HARD_CONFLICTS.digital_crop,
       holds |-> NumberAbove(sc.st["digital_crop_pct"], 100)]>>

\* the messages of the rules that hold, in catalog order
CatalogMessages(sc) ==
    LET held == SelectSeq(RuleCatalog(sc), LAMBDA r : r.holds)
    IN  [i \in 1..Len(held) |-> held[i].msg]

\* C4: for every SceneDraft, _detect_conflicts returns exactly the messages of
\* the rules whose condition holds, each once, in catalog order; the limits 2.0
\* and 10 themselves are no violations; the list is empty when no rule holds.
C4_ConflictsAreCatalog ==
    HasScene => _detect_conflicts(scene) = [raised |-> FALSE, conflicts |-> CatalogMessages(scene)]

\* whenever _detect_conflicts returns, it returns the catalog's messages
ConflictsAreCatalogWhenReturned ==
    HasScene => \/ _detect_conflicts(scene).raised
                \/ _detect_conflicts(scene).conflicts = CatalogMessages(scene)

\* the number of the six checks that hold, a field check asking for a truthy value
ChecksSatisfied(sc) ==
    Cardinality(
        {c \in {"ar", "lens_mm", "primary_action", "camera_move", "timeline", "micro_vfx"} :
            CASE c = "ar" -> sc.st["ar"] = VStr(<<"1","6",":","9">>)
              [] c = "lens_mm" -> Truthy(sc.st["lens_mm"])
              [] c = "primary_action" -> Truthy(sc.ds["primary_action"])
              [] c = "camera_move" -> Truthy(sc.ds["camera_move"])
              [] c = "timeline" -> Len(sc.timeline) > 0
              [] c = "micro_vfx" -> Truthy(sc.dw["micro_vfx"])})

\* the same count, primary_action, camera_move and micro_vfx only asked to be present
ChecksPresent(sc) ==
    Cardinality(
        {c \in {"ar", "lens_mm", "primary_action", "camera_move", "timeline", "micro_vfx"} :
            CASE c = "ar" -> sc.st["ar"] = VStr(<<"1","6",":","9">>)
              [] c = "lens_mm" -> Truthy(sc.st["lens_mm"])
              [] c = "primary_action" -> sc.ds["primary_action"].tag # "absent"
              [] c = "camera_move" -> sc.ds["camera_move"].tag # "absent"
              [] c = "timeline" -> Len(sc.timeline) > 0
              [] c = "micro_vfx" -> sc.dw["micro_vfx"].tag # "absent"})

\* C5 as stated: _coverage_score returns k/6, k the number of satisfied checks
\* among st.ar exactly "16:9", st.lens_mm present and truthy, ds.primary_action
\* present, ds.camera_move present, timeline non-empty, dw.micro_vfx present.
C5_CoverageCountsPresence ==
    HasScene => /\ _coverage_score(scene).den = 6
                /\ _coverage_score(scene).num = ChecksPresent(scene)

\* C5 as amended: _coverage_score returns k/6, k the number of satisfied checks
\* among st.ar exactly "16:9", timeline non-empty, and st.lens_mm,
\* ds.primary_action, ds.camera_move and dw.micro_vfx each present and truthy;
\* the result is one of 0/6, ..., 6/6 and the report carries it rounded to 3
\* decimals.
C5_CoverageCountsTruthy ==
    /\ HasScene => /\ _coverage_score(scene).den = 6
                   /\ _coverage_score(scene).num = ChecksSatisfied(scene)
                   /\ _coverage_score(scene).num \in 0..6
    /\ Validated => response.report.coverage_score \in RoundSet(1000 * ChecksSatisfied(scene), 6)

\* an empty primary_action is present and earns nothing
C5_Witness ==
    /\ Validated
    /\ scene.ds["primary_action"] = VStr(<<>>)
    /\ ChecksPresent(scene) = 6
    /\ response.report.coverage_score = 833

\* C6: qa_validate leaves the scene it is given unchanged (st, ds, dw, timeline
\* and drafts), whatever the engine and the verdict.
C6_QaLeavesScene == [][pc' = "validated" => scene' = scene]_vars

\* a failed scene whose camera_move was read with a default and is still missing
C6_Witness ==
    /\ Validated
    /\ response.report.severity = "fail"
    /\ scene.ds["camera_move"].tag = "absent"
    /\ scene.ds["penetration_mm"].tag = "absent"
    /\ scene.st["base_lighting"].tag = "absent"

\* C7: for every accepted request (beats in 1..12, any duration_sec) the composed
\* timeline is non-empty, every timestamp is >= 0, the timestamps never
\* decrease and every intensity lies in [0.0, 1.0].
C7_TimelineInvariants ==
    Composed =>
        LET tl == scene.timeline
        IN  /\ Len(tl) > 0
            /\ \A i \in 1..Len(tl) : tl[i].t >= 0
            /\ \A i \in 1..(Len(tl) - 1) : tl[i].t <= tl[i + 1].t
            /\ \A i \in 1..Len(tl) : tl[i].intensity >= 0 /\ tl[i].intensity <= 10

\* the brief's tokens: the maximal runs of letters, in lower case
TokensOf(b) ==
    {lower(SubSeq(b, i, j)) : <<i, j>> \in
        {p \in (1..Len(b)) \X (1..Len(b)) :
            /\ p[1] <= p[2]
            /\ \A h \in p[1]..p[2] : IsAlpha(b[h])
            /\ p[1] = 1 \/ ~IsAlpha(b[p[1] - 1])
            /\ p[2] = Len(b) \/ ~IsAlpha(b[p[2] + 1])}}

\* the tokens found in the draft, in any case
HitsIn(tokens, d) ==
    {t \in tokens : \E i \in 0..(Len(d) - Len(t)) : \A j \in 1..Len(t) : LowerChar(d[i + j]) = t[j]}

\* C8: _keyword_score returns a value in [0, 1]: exactly 0.7 when the brief has no
\* alphabetic token, otherwise min(1.0, 0.5 + 0.5 * hits / |tokens|), tokens the
\* distinct lower-cased alphabetic tokens of the brief and hits the number of
\* them found in the lower-cased draft.
C8_KeywordScore ==
    pc = "scored" =>
        LET tokens == TokensOf(args.brief)
            hits == Cardinality(HitsIn(tokens, args.draft))
            n == Cardinality(tokens)
        IN  /\ result.den > 0 /\ result.num >= 0 /\ result.num <= result.den
            /\ tokens = {} => result = Rat(7, 10)
            /\ tokens # {} =>
                \* 0.5 + 0.5 * hits / n, capped at 1
                IF n + hits > 2 * n THEN RatEq(result, Rat(1, 1))
                ELSE result.num * 2 * n = (n + hits) * result.den

\* two tokens, one of them in the draft in another case
C8_Witness ==
    /\ pc = "scored"
    /\ Cardinality(TokensOf(args.brief)) = 2
    /\ Cardinality(HitsIn(TokensOf(args.brief), args.draft)) = 1
    /\ \E i \in 1..Len(args.draft) : args.draft[i] \in UpperSet
    /\ RatEq(result, Rat(3, 4))

\* the story-match score qa_validate computes
StoryMatch == _keyword_score(BriefOf(scene), DraftOf(scene, engine))

\* C9: the scene expand_scene returns, validated as it is, has no conflicts and a
\* coverage of 6/6, so only the story-match score decides its severity.
C9_ComposedSceneIsClean ==
    (pc = "validated" /\ Composed) =>
        /\ response.status = "ok"
        /\ response.report.conflicts = <<>>
        /\ response.report.coverage_score = 1000
        /\ ChecksSatisfied(scene) = 6
        /\ response.report.severity =
              (IF Below(StoryMatch, 60) THEN "fail" ELSE IF Below(StoryMatch, 80) THEN "warn" ELSE "info")

C9_Witness ==
    /\ Validated
    /\ Composed
    /\ request.beats = MaxBeats
    /\ request.duration_sec > 0
    /\ engine = "VEO"
    /\ response.report.severity = "warn"

\* C10: in every QA result at most 4 satisfied checks mean "fail", exactly 5 are
\* never "info", and "info" implies 6 satisfied checks, no conflicts and a
\* story-match >= 0.80; so an empty timeline or a zero lens_mm never reaches
\* "info", though the Conflict Detector reports nothing for them.
C10_SeverityAgainstCoverage ==
    Validated =>
        LET k == ChecksSatisfied(scene)
            sev == response.report.severity
        IN  /\ k <= 4 => sev = "fail"
            /\ k = 5 => sev # "info"
            /\ ChecksPresent(scene) = 5 => sev # "info"
            /\ sev = "info" => /\ k = 6
                               /\ response.report.conflicts = <<>>
                               /\ ~Below(StoryMatch, 80)
                               /\ response.report.story_match_score >= 800
            /\ (scene.timeline = <<>> \/ scene.st["lens_mm"] \in {VInt(0), VFloat(0)}) => sev # "info"

\* a zero lens_mm: no conflict, a full story match, and still only "warn"
C10_Witness ==
    /\ Validated
    /\ scene.st["lens_mm"] = VInt(0)
    /\ response.report.conflicts = <<>>
    /\ response.report.story_match_score = 1000
    /\ response.report.severity = "warn"
====
